---- MODULE Spec2Model ----
(***************************************************************************)
(* Model of git-remote-codecommit (src/git_remote_codecommit/__init__.py): *)
(* the locator resolver Context.from_url, the URL signer git_url/sign and  *)
(* the entry point main.  Strings are sequences of one-character strings,  *)
(* so that parsing, splitting, percent-encoding and regular-expression     *)
(* matching are computed character by character as the code computes them. *)
(***************************************************************************)
EXTENDS Integers, Sequences, FiniteSets, TLC

\* ------------------------------------------------------------------------
\* Characters and string helpers
\* ------------------------------------------------------------------------

LowerSeq == <<"a","b","c","d","e","f","g","h","i","j","k","l","m",
              "n","o","p","q","r","s","t","u","v","w","x","y","z">>

UpperSeq == <<"A","B","C","D","E","F","G","H","I","J","K","L","M",
              "N","O","P","Q","R","S","T","U","V","W","X","Y","Z">>

Lower == {LowerSeq[i] : i \in 1..Len(LowerSeq)}

Upper == {UpperSeq[i] : i \in 1..Len(UpperSeq)}

Digit == {"0","1","2","3","4","5","6","7","8","9"}

\* str.isalpha() on an ASCII character
Alpha == Lower \cup Upper

\* the regular expression class \w (ASCII part)
Word == Alpha \cup Digit \cup {"_"}

\* urllib.parse.scheme_chars
scheme_chars == Alpha \cup Digit \cup {"+", "-", "."}

\* str.lower() of one character
LowerOf(c) ==
  IF c \in Upper THEN LowerSeq[CHOOSE i \in 1..Len(UpperSeq) : UpperSeq[i] = c]
  ELSE c

\* str.lower()
ToLower(s) == [i \in 1..Len(s) |-> LowerOf(s[i])]

\* str.find(c, start) with 1-based positions; 0 when c does not occur
Find(s, c, start) ==
  IF \E i \in start..Len(s) : s[i] = c
  THEN CHOOSE i \in start..Len(s) : s[i] = c /\ \A j \in start..(i-1) : s[j] # c
  ELSE 0

\* str.rfind(c) with 1-based positions; 0 when c does not occur
RFind(s, c) ==
  IF \E i \in 1..Len(s) : s[i] = c
  THEN CHOOSE i \in 1..Len(s) : s[i] = c /\ \A j \in (i+1)..Len(s) : s[j] # c
  ELSE 0

\* c in s
Contains(s, c) == \E i \in 1..Len(s) : s[i] = c

\* s[i:] of Python, for the 1-based first kept position i
From(s, i) == SubSeq(s, i, Len(s))

\* s[:n] of Python: the first n characters
Upto(s, n) == SubSeq(s, 1, n)

\* s.startswith(p)
StartsWith(s, p) == Len(s) >= Len(p) /\ Upto(s, Len(p)) = p

RECURSIVE Join(_, _)
\* sep.join(list)
Join(list, sep) ==
  IF list = <<>> THEN <<>>
  ELSE IF Len(list) = 1 THEN list[1]
  ELSE list[1] \o sep \o Join(Tail(list), sep)

\* ------------------------------------------------------------------------
\* urllib.parse.urlparse, as imported on source line 30
\* (control characters and square brackets are outside the alphabet)
\* ------------------------------------------------------------------------

uses_params == { <<>>, <<"f","t","p">>, <<"h","d","l">>,
                 <<"p","r","o","s","p","e","r","o">>, <<"h","t","t","p">>,
                 <<"i","m","a","p">>, <<"h","t","t","p","s">>,
                 <<"s","h","t","t","p">>, <<"r","t","s","p">>,
                 <<"r","t","s","p","s">>, <<"r","t","s","p","u">>,
                 <<"s","i","p">>, <<"s","i","p","s">>, <<"m","m","s">>,
                 <<"s","f","t","p">>, <<"t","e","l">> }

\* position of the first of '/', '?', '#' at or after start, else Len+1
NetlocEnd(s, start) ==
  IF \E i \in start..Len(s) : s[i] \in {"/", "?", "#"}
  THEN CHOOSE i \in start..Len(s) :
         s[i] \in {"/", "?", "#"} /\ \A j \in start..(i-1) : s[j] \notin {"/", "?", "#"}
  ELSE Len(s) + 1

\* urlsplit: scheme (lower-cased), netloc, path, query, fragment
urlsplit(u) ==
  LET i      == Find(u, ":", 1)
      hasSch == /\ i > 1
                /\ u[1] \in Alpha
                /\ \A k \in 1..(i-1) : u[k] \in scheme_chars
      scheme == IF hasSch THEN ToLower(Upto(u, i-1)) ELSE <<>>
      r1     == IF hasSch THEN From(u, i+1) ELSE u
      hasNet == StartsWith(r1, <<"/", "/">>)
      e      == NetlocEnd(r1, 3)
      netloc == IF hasNet THEN SubSeq(r1, 3, e-1) ELSE <<>>
      r2     == IF hasNet THEN From(r1, e) ELSE r1
      h      == Find(r2, "#", 1)
      frag   == IF h > 0 THEN From(r2, h+1) ELSE <<>>
      r3     == IF h > 0 THEN Upto(r2, h-1) ELSE r2
      q      == Find(r3, "?", 1)
      query  == IF q > 0 THEN From(r3, q+1) ELSE <<>>
      r4     == IF q > 0 THEN Upto(r3, q-1) ELSE r3
  IN [scheme |-> scheme, netloc |-> netloc, path |-> r4,
      query |-> query, fragment |-> frag]

\* _splitparams: the path without the parameters of its last segment
splitparams_path(p) ==
  LET sl == RFind(p, "/")
      i  == IF sl > 0 THEN Find(p, ";", sl) ELSE Find(p, ";", 1)
  IN IF i = 0 THEN p ELSE Upto(p, i-1)

\* urlparse: urlsplit, then ';params' cut from the path for uses_params schemes
urlparse(u) ==
  LET s == urlsplit(u)
  IN [scheme |-> s.scheme, netloc |-> s.netloc,
      path |-> IF s.scheme \in uses_params /\ Contains(s.path, ";")
               THEN splitparams_path(s.path) ELSE s.path,
      query |-> s.query, fragment |-> s.fragment]

\* ------------------------------------------------------------------------
\* Pure helpers of Context.from_url, main and git_url
\* ------------------------------------------------------------------------

codecommit == <<"c","o","d","e","c","o","m","m","i","t">>

default == <<"d","e","f","a","u","l","t">>

v1 == <<"v","1">>

\* re.match(r"^[a-z]{2}-\w*.*-\d{1}", scheme): a match anchored at the start
\* only; i is the end of what \w* consumes and j the end of what .* consumes
MatchRegionPrefix(s) ==
  /\ Len(s) >= 5
  /\ s[1] \in Lower
  /\ s[2] \in Lower
  /\ s[3] = "-"
  /\ \E i \in 3..Len(s) :
       /\ \A k \in 4..i : s[k] \in Word
       /\ \E j \in i..(Len(s) - 2) :
            /\ \A k \in (i+1)..j : s[k] # "\n"
            /\ s[j+1] = "-"
            /\ s[j+2] \in Digit

\* which branch of lines 129-146 the parsed scheme takes
SchemeForm(scheme) ==
  IF scheme = codecommit THEN "service"
  ELSE IF MatchRegionPrefix(scheme) THEN "region"
  ELSE "other"

\* lines 97-103: profile and repository from the authority
SplitNetloc(netloc) ==
  LET a == Find(netloc, "@", 1)
  IN IF a > 0
     THEN [explicit |-> TRUE, profile |-> Upto(netloc, a-1),
           repository |-> From(netloc, a+1)]
     ELSE [explicit |-> FALSE, profile |-> default, repository |-> netloc]

\* a rejection that forgets the authority
MalformedSchemeOnly(u) == u.scheme = <<>>

\* line 99: the parse is rejected
Malformed(u) == u.scheme = <<>> \/ u.netloc = <<>>

\* a profile check that never fails
ProfileMissingNever(profile, profiles) == FALSE

\* line 106: the named profile is unknown to the session
ProfileMissing(profile, profiles) ==
  \A i \in 1..Len(profiles) : profiles[i] # profile

\* a region step that trusts a region-shaped scheme without the availability check
RegionOutcomeUnchecked(scheme, configured, available) ==
  IF SchemeForm(scheme) = "service"
  THEN IF configured = <<>>
       THEN [exc |-> "RegionNotFound", region |-> <<>>]
       ELSE IF configured \notin available
       THEN [exc |-> "RegionNotAvailable", region |-> configured]
       ELSE [exc |-> "", region |-> configured]
  ELSE IF SchemeForm(scheme) = "region"
  THEN [exc |-> "", region |-> scheme]
  ELSE [exc |-> "FormatError", region |-> <<>>]

\* a region step that lets the configured region override a region-shaped scheme
RegionOutcomeConfigured(scheme, configured, available) ==
  LET r == IF SchemeForm(scheme) = "region" /\ configured = <<>> THEN scheme ELSE configured
  IN IF SchemeForm(scheme) = "other"
     THEN [exc |-> "FormatError", region |-> <<>>]
     ELSE IF r = <<>>
     THEN [exc |-> "RegionNotFound", region |-> <<>>]
     ELSE IF r \notin available
     THEN [exc |-> "RegionNotAvailable", region |-> r]
     ELSE [exc |-> "", region |-> r]

\* lines 129-146: the exception raised ("" for none) and the region chosen
RegionOutcome(scheme, configured, available) ==
  IF SchemeForm(scheme) = "service"
  THEN IF configured = <<>>
       THEN [exc |-> "RegionNotFound", region |-> <<>>]
       ELSE IF configured \notin available
       THEN [exc |-> "RegionNotAvailable", region |-> configured]
       ELSE [exc |-> "", region |-> configured]
  ELSE IF SchemeForm(scheme) = "region"
  THEN IF scheme \in available
       THEN [exc |-> "", region |-> scheme]
       ELSE [exc |-> "RegionNotAvailable", region |-> scheme]
  ELSE [exc |-> "FormatError", region |-> <<>>]

\* line 149: "if not credentials"
CredentialsMissing(c) == ~c.present

\* line 179: the exception classes the except clause of main names
Caught(kind) ==
  kind \in {"FormatError", "ProfileNotFound", "RegionNotFound", "CredentialsNotFound"}

\* botocore.compat.quote(s, safe=''): the characters never quoted
AlwaysSafe == Alpha \cup Digit \cup {"_", ".", "-", "~"}

\* the two hexadecimal digits of the ASCII code of a quoted character
HexOf(c) ==
  CASE c = "%" -> <<"2","5">>
    [] c = "/" -> <<"2","F">>
    [] c = "@" -> <<"4","0">>
    [] c = ":" -> <<"3","A">>
    [] c = "+" -> <<"2","B">>
    [] c = "=" -> <<"3","D">>
    [] c = "?" -> <<"3","F">>
    [] c = "#" -> <<"2","3">>
    [] c = ";" -> <<"3","B">>
    [] OTHER   -> <<"0","0">>

RECURSIVE quote(_)
\* botocore.compat.quote(s, safe='')
quote(s) ==
  IF s = <<>> THEN <<>>
  ELSE (IF Head(s) \in AlwaysSafe THEN <<Head(s)>> ELSE <<"%">> \o HexOf(Head(s)))
       \o quote(Tail(s))

\* line 203: the user name of the signed URL
Username(c) ==
  quote(c.access_key \o (IF c.token # <<>> THEN <<"%">> \o c.token ELSE <<>>))

\* line 199: the endpoint override of the environment, else the regional host
Hostname(endpoint, region) ==
  IF endpoint.set THEN endpoint.value
  ELSE <<"g","i","t","-","c","o","d","e","c","o","m","m","i","t",".">> \o region
       \o <<".","a","m","a","z","o","n","a","w","s",".","c","o","m">>

\* line 200
Path(version, repository) ==
  <<"/">> \o version \o <<"/","r","e","p","o","s","/">> \o repository

\* line 228: the password of the signed URL
SignToken(timestamp, signature) == timestamp \o <<"Z">> \o signature

\* line 206
Assemble(username, token, hostname, path) ==
  <<"h","t","t","p","s",":","/","/">> \o username \o <<":">> \o token
    \o <<"@">> \o hostname \o path

\* ------------------------------------------------------------------------
\* Inputs: argument vectors, locators and the answers of the collaborators
\* ------------------------------------------------------------------------

\* largest len(sys.argv) explored
MaxArgc == 4

use1 == <<"u","s","-","e","a","s","t","-","1">>

usw2 == <<"u","s","-","w","e","s","t","-","2">>

dev == <<"d","e","v">>

Schemes ==
  { codecommit,
    <<"C","o","d","e","C","o","m","m","i","t">>,
    use1,
    usw2,
    <<"u","s","-","e","a","s","t","-","1","x">>,
    <<"h","t","t","p">>,
    <<>> }

Seps == { <<":","/","/">>, <<":">>, <<"/","/">> }

Authorities ==
  { <<"r","e","p","o">>,
    dev \o <<"@","r","e","p","o">>,
    <<"g","h","o","s","t","@","r","e","p","o">>,
    dev \o <<"@">>,
    dev \o <<"@","a","@","b">>,
    <<"@","r","e","p","o">>,
    <<"a",";","b">>,
    <<>> }

Tails == { <<>>, <<"/","x">> }

Locators ==
  { s \o sep \o a \o t : s \in Schemes, sep \in Seps, a \in Authorities, t \in Tails }

\* session.available_profiles
ProfileLists == { <<>>, <<default>>, <<default, dev>> }

\* the regions botocore lists for the service over all partitions (line 127)
RegionSets == { {}, {use1}, {use1, usw2} }

\* session.get_config_variable('region'); <<>> stands for None
ConfiguredRegions == { <<>>, use1, usw2 }

NoCreds == [present |-> FALSE, access_key |-> <<>>, token |-> <<>>]

AKID == <<"A","K","I","D">>

\* session.get_credentials(); token <<>> stands for no session token
CredentialAnswers ==
  { NoCreds,
    [present |-> TRUE, access_key |-> AKID, token |-> <<>>],
    [present |-> TRUE, access_key |-> AKID, token |-> <<"t","/","k">>] }

\* os.environ.get('CODE_COMMIT_ENDPOINT')
Endpoints ==
  { [set |-> FALSE, value |-> <<>>],
    [set |-> TRUE, value |-> <<"l","o","c","a","l","h","o","s","t">>] }

\* datetime.utcnow().strftime('%Y%m%dT%H%M%S')
Clock == { <<"2","0","2","6","0","1","0","1","T","0","0","0","0","0","0">>,
           <<"2","0","2","6","0","1","0","1","T","0","0","0","0","0","1">> }

\* the hexadecimal digest the SigV4 signer answers
Signatures == { <<"9","f","0","c">> }

\* how the transport subprocess ends: an exit code, or a signal that kills it
ChildResults ==
  { [signal |-> 0, code |-> 0], [signal |-> 0, code |-> 1],
    [signal |-> 0, code |-> 128], [signal |-> 9, code |-> 0] }

\* arguments of a direct call of git_url
RepositoryArgs ==
  { <<"r","e","p","o">>, <<"a","@","b">>, <<"a",";","b">>, <<"a","?","b">>,
    <<"a","#","b">>, <<"a","/","b">>, <<>> }

VersionArgs == { v1, <<"v","2">> }

NoArgs == [repository |-> <<>>, version |-> <<>>, region |-> <<>>, credentials |-> NoCreds]

GitUrlArgs ==
  { [repository |-> r, version |-> v, region |-> g, credentials |-> c] :
      r \in RepositoryArgs, v \in VersionArgs, g \in {use1, usw2},
      c \in CredentialAnswers \ {NoCreds} }

\* ------------------------------------------------------------------------
\* State
\* ------------------------------------------------------------------------

VARIABLES
  entry,             \* which function the run enters: "main", "from_url", "git_url"
  argc,              \* len(sys.argv)
  urlGiven,          \* FALSE when remote_url is None
  remote_url,        \* sys.argv[2], or the argument of from_url
  pc,                \* position of the run
  url,               \* urlparse(remote_url)
  profile,           \* local of from_url
  repository,        \* local of from_url
  profiles,          \* session.available_profiles as read on line 106
  available_regions, \* local of from_url
  configured_region, \* the region the session's profile configures; <<>> for none
  region,            \* local of from_url
  calls,             \* collaborator calls made so far, in order
  exc,               \* class of the exception raised, "" for none
  excMsg,            \* str(exc)
  context,           \* the Context returned by from_url
  gitArgs,           \* the arguments git_url is called with
  authenticated_url, \* the result of git_url
  stderr,            \* the lines written to standard error
  exitCode,          \* exit status of the process, NotExited while it runs
  spawned,           \* number of subprocess.call invocations
  child              \* how the spawned subprocess ended

vars == <<entry, argc, urlGiven, remote_url, pc, url, profile, repository,
          profiles, available_regions, configured_region, region, calls, exc,
          excMsg, context, gitArgs, authenticated_url, stderr, exitCode, spawned, child>>

NotExited == 0 - 1

NoUrl == [scheme |-> <<>>, netloc |-> <<>>, path |-> <<>>, query |-> <<>>, fragment |-> <<>>]

NoContext == [made |-> FALSE, repository |-> <<>>, version |-> <<>>,
              region |-> <<>>, credentials |-> NoCreds]

NoMsg == [text |-> "", subject |-> <<>>, listing |-> <<>>]

NoChild == [signal |-> 0, code |-> 0]

\* the text of an exception or usage message: the fixed words of its template
\* and the values interpolated into it
Msg(text, subject, listing) == [text |-> text, subject |-> subject, listing |-> listing]

\* a message that repeats the requested profile instead of listing the known ones
ProfileNotFoundMsgRequested(p, ps) ==
  Msg("Profile {} not found, available profiles are: {}", p, p)

\* line 107: the message of ProfileNotFound
ProfileNotFoundMsg(p, ps) ==
  Msg("Profile {} not found, available profiles are: {}", p, Join(ps, <<",", " ">>))

\* what the interpreter prints for an exception nothing catches: the traceback
\* header, one line per frame, then the exception line
Traceback(kind, msg) ==
  << Msg("Traceback (most recent call last):", <<>>, <<>>),
     Msg("File __init__.py, in main", <<>>, <<>>),
     Msg("File __init__.py, in the function that raised", <<>>, <<>>),
     Msg(kind, msg.subject, msg.listing) >>

\* subprocess.call's return value: the exit code, or minus the signal number
ReturnCode(c) == IF c.signal # 0 THEN 0 - c.signal ELSE c.code

\* the exit status the operating system reports for sys.exit(n)
ExitStatus(n) == n % 256

\* an argument check that is off by one at the low end
UsageErrorLoose(n) ==
  IF n < 2 THEN "Too few arguments"
  ELSE IF n > 3 THEN "Too many arguments"
  ELSE ""

\* lines 166-170: the usage error of main, "" when argv is accepted
UsageError(n) ==
  IF n < 3 THEN "Too few arguments"
  ELSE IF n > 3 THEN "Too many arguments"
  ELSE ""

Init ==
  /\ entry \in {"main", "from_url", "git_url"}
  /\ argc \in 1..MaxArgc
  /\ urlGiven \in BOOLEAN
  /\ remote_url \in Locators \cup {<<>>}
  /\ gitArgs \in GitUrlArgs \cup {NoArgs}
  /\ entry = "main" =>
       /\ urlGiven
       /\ argc < 3 => remote_url = <<>>
       /\ gitArgs = NoArgs
  /\ entry = "from_url" =>
       /\ argc = 1
       /\ ~urlGiven => remote_url = <<>>
       /\ gitArgs = NoArgs
  /\ entry = "git_url" =>
       /\ argc = 1
       /\ urlGiven
       /\ remote_url = <<>>
       /\ gitArgs # NoArgs
  /\ pc = entry
  /\ url = NoUrl
  /\ profile = <<>>
  /\ repository = <<>>
  /\ profiles = <<>>
  /\ available_regions = {}
  /\ configured_region = <<>>
  /\ region = <<>>
  /\ calls = <<>>
  /\ exc = ""
  /\ excMsg = NoMsg
  /\ context = NoContext
  /\ authenticated_url = <<>>
  /\ stderr = <<>>
  /\ exitCode = NotExited
  /\ spawned = 0
  /\ child = NoChild

\* ------------------------------------------------------------------------
\* Steps
\* ------------------------------------------------------------------------

\* lines 155-157: error(msg) writes one line and exits with status 1
ErrorExit(line) ==
  /\ stderr' = Append(stderr, line)
  /\ exitCode' = 1
  /\ pc' = "exited"

\* a raise inside from_url: under main the except clause of lines 179-180
\* reports a caught class through error(); any other class leaves main, the
\* interpreter prints its traceback and exits with status 1.  A direct caller
\* of from_url receives the exception.
Raise(kind, msg) ==
  /\ exc' = kind
  /\ excMsg' = msg
  /\ IF entry = "main"
     THEN IF Caught(kind)
          THEN ErrorExit(msg)
          ELSE /\ stderr' = stderr \o Traceback(kind, msg)
               /\ exitCode' = 1
               /\ pc' = "exited"
     ELSE /\ pc' = "propagated"
          /\ UNCHANGED <<stderr, exitCode>>

\* lines 160-172: the argument count check of main
Main ==
  /\ pc = "main"
  /\ IF UsageError(argc) # ""
     THEN ErrorExit(Msg(UsageError(argc), <<>>, <<>>))
     ELSE /\ pc' = "from_url"
          /\ UNCHANGED <<stderr, exitCode>>
  /\ UNCHANGED <<entry, argc, urlGiven, remote_url, url, profile, repository,
                 profiles, available_regions, configured_region, region, calls, exc,
                 excMsg, context, gitArgs, authenticated_url, spawned, child>>

\* lines 92-100: the None check, the parse and the scheme/authority check
\* (the event emitter of line 96 is no session and looks nothing up)
FromUrlParse ==
  /\ pc = "from_url"
  /\ IF ~urlGiven
     THEN /\ Raise("FormatError", Msg("url required", <<>>, <<>>))
          /\ UNCHANGED <<url, profile, repository>>
     ELSE /\ url' = urlparse(remote_url)
          /\ profile' = default
          /\ repository' = url'.netloc
          /\ IF Malformed(url')
             THEN Raise("FormatError", Msg("{} is a malformed url", remote_url, <<>>))
             ELSE /\ pc' = "profile"
                  /\ UNCHANGED <<exc, excMsg, stderr, exitCode>>
  /\ UNCHANGED <<entry, argc, urlGiven, remote_url, profiles, available_regions,
                 configured_region, region, calls, context, gitArgs, authenticated_url, spawned, child>>

\* lines 102-110: the session, and the profile check when a profile is named
FromUrlProfile ==
  /\ pc = "profile"
  /\ LET sp == SplitNetloc(url.netloc)
     IN IF sp.explicit
        THEN \E ps \in ProfileLists :
               /\ profile' = sp.profile
               /\ repository' = sp.repository
               /\ profiles' = ps
               /\ calls' = calls \o <<"Session", "available_profiles">>
               /\ IF ProfileMissing(sp.profile, ps)
                  THEN Raise("ProfileNotFound", ProfileNotFoundMsg(sp.profile, ps))
                  ELSE /\ pc' = "plugins"
                       /\ UNCHANGED <<exc, excMsg, stderr, exitCode>>
        ELSE /\ calls' = Append(calls, "Session")
             /\ pc' = "plugins"
             /\ UNCHANGED <<profile, repository, profiles, exc, excMsg, stderr, exitCode>>
  /\ UNCHANGED <<entry, argc, urlGiven, remote_url, url, available_regions,
                 configured_region, region, context, gitArgs, authenticated_url, spawned, child>>

\* lines 112-125: plugins are loaded when awscli can be imported, else skipped
LoadPlugins ==
  /\ pc = "plugins"
  /\ \E awscli \in BOOLEAN :
       calls' = IF awscli THEN Append(calls, "load_plugins") ELSE calls
  /\ pc' = "regions"
  /\ UNCHANGED <<entry, argc, urlGiven, remote_url, url, profile, repository,
                 profiles, available_regions, configured_region, region, exc, excMsg,
                 context, gitArgs, authenticated_url, stderr, exitCode, spawned, child>>

\* lines 127-146: the available regions, then the region by the form of the scheme
FromUrlRegion ==
  /\ pc = "regions"
  /\ \E avail \in RegionSets, configured \in ConfiguredRegions :
       LET form == SchemeForm(url.scheme)
           out  == RegionOutcome(url.scheme, configured, avail)
       IN /\ available_regions' = avail
          /\ configured_region' = configured
          /\ calls' = IF form = "service"
                      THEN calls \o <<"get_available_regions", "get_config_variable">>
                      ELSE Append(calls, "get_available_regions")
          /\ region' = out.region
          /\ IF out.exc # ""
             THEN Raise(out.exc,
                        IF out.exc = "RegionNotFound"
                        THEN Msg("Profile {} doesn't have a region available. Please set it.",
                                 profile, <<>>)
                        ELSE IF out.exc = "RegionNotAvailable"
                        THEN Msg("Region {} is currently not available for use with AWS CodeCommit.",
                                 out.region, <<>>)
                        ELSE Msg("{} is a malformed url", remote_url, <<>>))
             ELSE /\ pc' = "credentials"
                  /\ UNCHANGED <<exc, excMsg, stderr, exitCode>>
  /\ UNCHANGED <<entry, argc, urlGiven, remote_url, url, profile, repository,
                 profiles, context, gitArgs, authenticated_url, spawned, child>>

\* lines 147-152: the credentials, then the Context; main passes its fields
\* to git_url (line 176)
FromUrlCredentials ==
  /\ pc = "credentials"
  /\ \E c \in CredentialAnswers :
       /\ calls' = Append(calls, "get_credentials")
       /\ IF CredentialsMissing(c)
          THEN /\ Raise("CredentialsNotFound",
                        Msg("Profile {} doesn't have credentials available.", profile, <<>>))
               /\ UNCHANGED <<context, gitArgs>>
          ELSE /\ context' = [made |-> TRUE, repository |-> repository, version |-> v1,
                              region |-> region, credentials |-> c]
               /\ IF entry = "main"
                  THEN /\ gitArgs' = [repository |-> repository, version |-> v1,
                                      region |-> region, credentials |-> c]
                       /\ pc' = "git_url"
                  ELSE /\ pc' = "returned"
                       /\ UNCHANGED gitArgs
               /\ UNCHANGED <<exc, excMsg, stderr, exitCode>>
  /\ UNCHANGED <<entry, argc, urlGiven, remote_url, url, profile, repository,
                 profiles, available_regions, configured_region, region,
                 authenticated_url, spawned, child>>

\* lines 183-228: git_url and sign; an exception of the signer is of no class
\* main catches
GitUrl ==
  /\ pc = "git_url"
  /\ \E ep \in Endpoints, ts \in Clock, sig \in Signatures, fails \in BOOLEAN :
       LET hostname == Hostname(ep, gitArgs.region)
           path     == Path(gitArgs.version, gitArgs.repository)
       IN IF fails
          THEN /\ Raise("SignerError", Msg("signing failed", <<>>, <<>>))
               /\ UNCHANGED authenticated_url
          ELSE /\ authenticated_url' =
                    Assemble(Username(gitArgs.credentials), SignToken(ts, sig), hostname, path)
               /\ pc' = IF entry = "main" THEN "spawn" ELSE "returned"
               /\ UNCHANGED <<exc, excMsg, stderr, exitCode>>
  /\ UNCHANGED <<entry, argc, urlGiven, remote_url, url, profile, repository,
                 profiles, available_regions, configured_region, region, calls,
                 context, gitArgs, spawned, child>>

\* line 177: run the transport and exit with what subprocess.call returns
Spawn ==
  /\ pc = "spawn"
  /\ \E c \in ChildResults :
       /\ child' = c
       /\ exitCode' = ExitStatus(ReturnCode(c))
  /\ spawned' = spawned + 1
  /\ pc' = "exited"
  /\ UNCHANGED <<entry, argc, urlGiven, remote_url, url, profile, repository,
                 profiles, available_regions, configured_region, region, calls, exc,
                 excMsg, context, gitArgs, authenticated_url, stderr>>

Next ==
  \/ Main
  \/ FromUrlParse
  \/ FromUrlProfile
  \/ LoadPlugins
  \/ FromUrlRegion
  \/ FromUrlCredentials
  \/ GitUrl
  \/ Spawn

Spec == Init /\ [][Next]_vars

\* ------------------------------------------------------------------------
\* Properties
\* ------------------------------------------------------------------------

\* the collaborator call c has been made
Called(c) == \E i \in 1..Len(calls) : calls[i] = c

\* the error classes from_url raises
ResolutionErrors ==
  {"FormatError", "ProfileNotFound", "RegionNotFound", "RegionNotAvailable",
   "CredentialsNotFound"}

\* the scheme as the locator spells it: the text before the first ':'
WrittenScheme(u) == Upto(u, Find(u, ":", 1) - 1)

\* the region shape as the specification words it, matched against the whole
\* scheme: two lowercase letters, a hyphen, word characters and hyphens, a
\* hyphen, one digit
WholeRegionShape(s) ==
  /\ Len(s) >= 5
  /\ s[1] \in Lower
  /\ s[2] \in Lower
  /\ s[3] = "-"
  /\ \A k \in 4..(Len(s) - 2) : s[k] \in Word \cup {"-"}
  /\ s[Len(s) - 1] = "-"
  /\ s[Len(s)] \in Digit

\* the locator was handed to from_url and its parse has a scheme and an authority
ParsedWhole ==
  /\ urlGiven
  /\ pc \notin {"main", "from_url"}
  /\ entry = "main" => argc = 3
  /\ entry # "git_url"
  /\ urlsplit(remote_url).scheme # <<>>
  /\ urlsplit(remote_url).netloc # <<>>

\* C1: under main, each of the five resolution errors ends the run with exactly
\* one line on standard error, exit status 1 and no subprocess
C1_EveryResolutionErrorReported ==
  (entry = "main" /\ exc \in ResolutionErrors) =>
     /\ pc = "exited"
     /\ Len(stderr) = 1
     /\ exitCode = 1
     /\ spawned = 0

\* C2: once the region step has run, a locator whose written scheme is neither
\* exactly 'codecommit' nor in its entirety region-shaped has failed with
\* FormatError
C2_OnlyWholeCaseSensitiveSchemes ==
  ( /\ ParsedWhole
    /\ Called("get_available_regions")
    /\ WrittenScheme(remote_url) # codecommit
    /\ ~WholeRegionShape(WrittenScheme(remote_url)) )
  => exc = "FormatError"

\* C3: a returned Context names an available region, holds credentials and has
\* version 'v1'; when from_url raised, no Context exists
C3_ContextValidated ==
  /\ context.made =>
       /\ context.region \in available_regions
       /\ context.credentials.present
       /\ context.credentials \in CredentialAnswers \ {NoCreds}
       /\ context.version = <<"v", "1">>
  /\ exc \in ResolutionErrors => context = NoContext

\* C3 witness: from_url returned a Context for a region-shaped scheme
C3_Witness ==
  /\ pc = "returned"
  /\ context.made
  /\ context.region = urlsplit(remote_url).scheme
  /\ context.region = usw2

\* C4: the repository name of a returned Context is never empty
C4_RepositoryNeverEmpty == context.made => context.repository # <<>>

\* C5: an absent locator, or one whose parse lacks the scheme or the authority,
\* fails with FormatError and no session or lookup call has been made
C5_MalformedFailsBeforeLookups ==
  ( /\ pc \notin {"main", "from_url"}
    /\ entry # "git_url"
    /\ entry = "main" => argc = 3
    /\ \/ ~urlGiven
       \/ urlsplit(remote_url).scheme = <<>>
       \/ urlsplit(remote_url).netloc = <<>> )
  => /\ exc = "FormatError"
     /\ calls = <<>>
     /\ profiles = <<>>
     /\ available_regions = {}
     /\ ~context.made

\* C5 witness: a locator with a scheme and no authority was rejected
C5_Witness ==
  /\ exc = "FormatError"
  /\ calls = <<>>
  /\ urlGiven
  /\ urlsplit(remote_url).scheme = codecommit
  /\ urlsplit(remote_url).netloc = <<>>

\* C6: with '@' in the authority and the text left of the first '@' not among
\* the configured profiles, from_url fails with ProfileNotFound and the message
\* lists exactly the configured profiles; without '@' the profile is 'default'
\* and ProfileNotFound is never raised
C6_ProfileCheck ==
  (ParsedWhole /\ Called("Session")) =>
    LET n == urlsplit(remote_url).netloc
        a == Find(n, "@", 1)
    IN IF a > 0
       THEN (\A i \in 1..Len(profiles) : profiles[i] # Upto(n, a - 1)) =>
              /\ exc = "ProfileNotFound"
              /\ excMsg.subject = Upto(n, a - 1)
              /\ excMsg.listing = Join(profiles, <<",", " ">>)
       ELSE /\ profile = <<"d","e","f","a","u","l","t">>
            /\ exc # "ProfileNotFound"
            /\ ~Called("available_profiles")

\* C6 witness: an unknown profile was named while two profiles are configured
C6_Witness ==
  /\ exc = "ProfileNotFound"
  /\ Len(profiles) = 2
  /\ excMsg.listing = default \o <<",", " ">> \o dev

\* C7: after the region step, the literal service scheme gives RegionNotFound
\* without a configured region, RegionNotAvailable for a configured region
\* that is not available, else the configured region; a region-shaped scheme
\* gives RegionNotAvailable when it is not available, else itself, whatever
\* the profile configures
C7_RegionOutcome ==
  (ParsedWhole /\ Called("get_available_regions")) =>
    LET sch == urlsplit(remote_url).scheme
    IN /\ sch = codecommit =>
            IF configured_region = <<>> THEN exc = "RegionNotFound"
            ELSE IF configured_region \notin available_regions
            THEN exc = "RegionNotAvailable"
            ELSE /\ exc \notin {"RegionNotFound", "RegionNotAvailable", "FormatError"}
                 /\ region = configured_region
       /\ WholeRegionShape(sch) =>
            /\ exc # "RegionNotFound"
            /\ ~Called("get_config_variable")
            /\ IF sch \notin available_regions THEN exc = "RegionNotAvailable"
               ELSE /\ exc \notin {"RegionNotAvailable", "FormatError"}
                    /\ region = sch

\* C7 witness: a region-shaped scheme won over a different configured region
C7_Witness ==
  /\ context.made
  /\ urlsplit(remote_url).scheme = use1
  /\ configured_region = usw2
  /\ context.region = use1

\* C8: the subprocess is spawned at most once, and only after exactly two
\* positional arguments, a returned Context and a signed URL; the exit status
\* is then the exit code of the subprocess; with another argument count main
\* exits with status 1 after one message, without attempting resolution
C8_SpawnDiscipline ==
  /\ spawned \in {0, 1}
  /\ spawned = 1 =>
       /\ entry = "main"
       /\ argc = 3
       /\ context.made
       /\ exc = ""
       /\ authenticated_url # <<>>
       /\ pc = "exited"
       /\ child.signal = 0 => exitCode = child.code
       /\ child.signal # 0 => exitCode # 0
  /\ (pc = "exited" /\ spawned = 0) => exitCode = 1
  /\ (entry = "main" /\ argc # 3 /\ pc # "main") =>
       /\ pc = "exited"
       /\ exitCode = 1
       /\ Len(stderr) = 1
       /\ exc = ""
       /\ calls = <<>>
       /\ url = NoUrl
       /\ ~context.made

\* C8 witness: the subprocess ran and its exit code 128 became the exit status
C8_Witness ==
  /\ spawned = 1
  /\ child = [signal |-> 0, code |-> 128]
  /\ exitCode = 128

\* C9: the path component of the URL git_url returns is
\* '/<version>/repos/<repository>' for the version and repository supplied,
\* after 'https://<username>:<timestamp>Z<signature>@<hostname>'
C9_PathRoundTrip ==
  authenticated_url # <<>> =>
    LET p == urlsplit(authenticated_url)
    IN /\ p.scheme = <<"h","t","t","p","s">>
       /\ p.path = <<"/">> \o gitArgs.version \o <<"/","r","e","p","o","s","/">>
                     \o gitArgs.repository

\* C10: from_url reports the earliest failing step: a rejected parse before
\* any call, ProfileNotFound before any region or credential lookup (also for
\* an unaccepted scheme), the region step's error before the credential
\* lookup, and CredentialsNotFound only for a validated region
C10_EarliestErrorWins ==
  /\ exc = "ProfileNotFound" => calls = <<"Session", "available_profiles">>
  /\ exc \in {"RegionNotFound", "RegionNotAvailable"} => ~Called("get_credentials")
  /\ (exc = "FormatError" /\ calls # <<>>) =>
       /\ Called("get_available_regions")
       /\ ~Called("get_credentials")
  /\ exc = "CredentialsNotFound" =>
       /\ region \in available_regions
       /\ Called("get_available_regions")
  /\ ( /\ ParsedWhole
       /\ Called("Session")
       /\ urlsplit(remote_url).scheme # codecommit
       /\ ~MatchRegionPrefix(urlsplit(remote_url).scheme)
       /\ Find(urlsplit(remote_url).netloc, "@", 1) > 0
       /\ \A i \in 1..Len(profiles) :
            profiles[i] # Upto(urlsplit(remote_url).netloc,
                               Find(urlsplit(remote_url).netloc, "@", 1) - 1) )
     => exc = "ProfileNotFound"

\* C10 witness: an unaccepted scheme with an unknown profile gave ProfileNotFound
C10_Witness ==
  /\ exc = "ProfileNotFound"
  /\ urlsplit(remote_url).scheme = <<"h","t","t","p">>
  /\ pc \in {"exited", "propagated"}

====
